---- MODULE Spec2Model ----
(***************************************************************************)
(* State-machine model of the firefly-nft contract: the series registry    *)
(* (series.rs), minting and transfer entry points (lib.rs) and the         *)
(* approval ledger (approval/approval_impl.rs).                            *)
(*                                                                         *)
(* Every entry point runs as one atomic step.  For each entry point there  *)
(* is an operator that computes the outcome of a call in the current state *)
(* (its result, what it returns, what it refunds and the maps it leaves    *)
(* behind) and an action that commits that outcome.  A panic discards      *)
(* every write of the call: its outcome carries the maps unchanged.        *)
(*                                                                         *)
(* Option<T> is modelled as a sequence: None is <<>>, Some(x) is <<x>>.    *)
(* A map is a function whose DOMAIN is the set of keys present.            *)
(***************************************************************************)
EXTENDS Integers, Sequences, FiniteSets, TLC

(***************************************************************************)
(* Bounds of the model.                                                    *)
(***************************************************************************)
MaxSeries == 1
MaxTokens == 2
MaxApprovalId == 2
MaxPromises == 1
MaxSeriesIds == 3
MaxMinted == 3

(***************************************************************************)
(* Input domains.                                                          *)
(***************************************************************************)
Accounts == {"alice", "bob", "charlie"}

None == <<>>
Some(x) == <<x>>

\* u128 amounts that exceed the checker's integers are kept as five base-10^9
\* limbs, most significant first.
Limb == 1000000000
U128(n) == <<0, 0, 0, 0, n>>

RECURSIVE U128LessFrom(_, _, _)
U128LessFrom(a, b, i) ==
    IF i > 5 THEN FALSE
    ELSE IF a[i] # b[i] THEN a[i] < b[i]
    ELSE U128LessFrom(a, b, i + 1)

\* a variant of U128Less: equal amounts pass
U128LessOrEqual(a, b) == a = b \/ U128LessFrom(a, b, 1)

U128Less(a, b) == U128LessFrom(a, b, 1)

\* 1_000_000_000 * 10^24 = 10^6 * (10^9)^3
MAX_PRICE == <<0, 1000000, 0, 0, 0>>
MAX_PRICE_MINUS_1 == <<0, 999999, Limb - 1, Limb - 1, Limb - 1>>

Prices == {None, Some(U128(0)), Some(MAX_PRICE_MINUS_1), Some(MAX_PRICE)}

sample_token_metadata == [title |-> Some("Olympus Mons")]
Metadatas == {sample_token_metadata, [title |-> None]}

(***************************************************************************)
(* Storage accounting (utils).                                             *)
(***************************************************************************)
storage_byte_cost == 10

bytes_for_approved_account_id(account_id) == Len(account_id) + 4 + 8

\* storage taken by one series record and by one minted token
series_storage_bytes == 200
mint_storage_bytes == 300

(***************************************************************************)
(* State.                                                                  *)
(***************************************************************************)
VARIABLES
    owner_id,                \* tokens.owner_id: the minting authority
    token_series_by_id,      \* series id -> TokenSeries
    owner_by_id,             \* tokens.owner_by_id: token id -> owner
    approvals_by_id,         \* Option<token id -> (account -> approval id)>
    next_approval_id_by_id,  \* Option<token id -> next approval id>
    promises,                \* scheduled nft_on_approve calls, oldest first
    issued,                  \* history: token id -> approval ids assigned, in order
    created,                 \* history: series ids returned by nft_create_series, in order
    minted,                  \* history: series and token id of each nft_mint, in order
    paid                     \* history: token id -> storage charged by nft_approve less
                             \* the refunds of nft_revoke and nft_revoke_all, since
                             \* the last transfer of the token

vars == <<owner_id, token_series_by_id, owner_by_id, approvals_by_id,
          next_approval_id_by_id, promises, issued, created, minted, paid>>

EmptyMap == [k \in {} |-> 0]
MapInsert(m, k, v) == [x \in (DOMAIN m) \cup {k} |-> IF x = k THEN v ELSE m[x]]
MapRemove(m, k) == [x \in (DOMAIN m) \ {k} |-> m[x]]
MapGet(m, k) == IF k \in DOMAIN m THEN Some(m[k]) ELSE None

\* Contract::new passes Some(StorageKey::Approval); NonFungibleToken::new also
\* accepts None, which leaves both approval maps absent.
Init ==
    /\ owner_id = "alice"
    /\ token_series_by_id = EmptyMap
    /\ owner_by_id = EmptyMap
    /\ \E approval_prefix \in {None, Some("Approval")} :
          /\ approvals_by_id =
                IF approval_prefix = None THEN None ELSE Some(EmptyMap)
          /\ next_approval_id_by_id =
                IF approval_prefix = None THEN None ELSE Some(EmptyMap)
    /\ promises = <<>>
    /\ issued = EmptyMap
    /\ created = <<>>
    /\ minted = <<>>
    /\ paid = EmptyMap

\* The outcome of a call that panics: every write of the call is discarded.
Panic(message) ==
    [result |-> message,
     token_series_by_id |-> token_series_by_id,
     owner_by_id |-> owner_by_id,
     approvals_by_id |-> approvals_by_id,
     next_approval_id_by_id |-> next_approval_id_by_id,
     promises |-> promises,
     approval_id |-> None, refund |-> 0, log |-> None, ret |-> None]

\* The outcome of a call that returns without a write; a handler states its
\* writes with EXCEPT.
Ok == Panic("ok")

\* An entry point as a step of the contract: the outcome is committed.
Commit(outcome) ==
    /\ token_series_by_id' = outcome.token_series_by_id
    /\ owner_by_id' = outcome.owner_by_id
    /\ approvals_by_id' = outcome.approvals_by_id
    /\ next_approval_id_by_id' = outcome.next_approval_id_by_id
    /\ promises' = outcome.promises
    /\ UNCHANGED owner_id

\* the storage payments of a token so far, and the payments after amount is
\* charged for it (refunded, when negative)
PaidOn(token_id) == IF token_id \in DOMAIN paid THEN paid[token_id] ELSE 0
Charged(token_id, amount) ==
    IF PaidOn(token_id) + amount = 0 THEN MapRemove(paid, token_id)
    ELSE MapInsert(paid, token_id, PaidOn(token_id) + amount)

\* the storage released by a set of approved accounts, paid back to the caller
RECURSIVE refund_approved_account_ids_iter(_)
refund_approved_account_ids_iter(account_ids) ==
    IF account_ids = {} THEN 0
    ELSE LET a == CHOOSE x \in account_ids : TRUE
         IN  bytes_for_approved_account_id(a) * storage_byte_cost
                + refund_approved_account_ids_iter(account_ids \ {a})

refund_approved_account_ids(approved_account_ids) ==
    refund_approved_account_ids_iter(DOMAIN approved_account_ids)

\* refund_deposit: the attached deposit pays for the storage used
required_cost(storage_used) == storage_byte_cost * storage_used

(***************************************************************************)
(* Series registry (series.rs).                                            *)
(***************************************************************************)
\* a variant of next_token_series_id: the count of series, without the + 1
next_token_series_id_from_zero(by_id) == ToString(Cardinality(DOMAIN by_id))

\* (self.token_series_by_id.len() + 1).to_string()
next_token_series_id(by_id) == ToString(Cardinality(DOMAIN by_id) + 1)

\* a variant of new_token_series: the minting authority is entered as creator
new_token_series_of_owner(token_metadata, caller_id, price_res) ==
    [metadata |-> token_metadata,
     creator_id |-> owner_id,
     tokens |-> {},
     price |-> price_res,
     is_mintable |-> TRUE]

\* TokenSeries{ metadata, creator_id: caller_id, tokens: UnorderedSet::new(..),
\*              price: price_res, is_mintable: true }
new_token_series(token_metadata, caller_id, price_res) ==
    [metadata |-> token_metadata,
     creator_id |-> caller_id,
     tokens |-> {},
     price |-> price_res,
     is_mintable |-> TRUE]

create_series(caller, deposit, token_metadata, price) ==
    LET token_series_id == next_token_series_id(token_series_by_id)
    IN  IF token_series_id \in DOMAIN token_series_by_id
          THEN Panic("FireFly: duplicate token_series_id")
        ELSE IF token_metadata.title = None
          THEN Panic("FireFly: token_metadata.title is required")
        ELSE IF price # None /\ ~U128Less(price[1], MAX_PRICE)
          THEN Panic("FireFly: price higher than MAX_PRICE")
        ELSE IF required_cost(series_storage_bytes) > deposit
          THEN Panic("Must attach yoctoNEAR to cover storage")
        ELSE [Ok EXCEPT
                !.token_series_by_id =
                    MapInsert(token_series_by_id, token_series_id,
                       new_token_series(token_metadata, caller, price)),
                !.log = Some([type |-> "nft_create_series",
                              token_series_id |-> token_series_id,
                              token_metadata |-> token_metadata,
                              creator_id |-> caller,
                              price |-> price]),
                !.refund = deposit - required_cost(series_storage_bytes),
                !.ret = Some([token_series_id |-> token_series_id,
                              metadata |-> token_metadata,
                              creator_id |-> caller])]

nft_create_series(caller, deposit, token_metadata, price) ==
    LET outcome == create_series(caller, deposit, token_metadata, price)
    IN  /\ Commit(outcome)
        /\ created' =
              IF outcome.result # "ok" THEN created
              ELSE Append(created, outcome.ret[1].token_series_id)
        /\ UNCHANGED <<issued, minted, paid>>

\* a view call
series_for_all ==
    {[token_series_id |-> id,
      metadata |-> token_series_by_id[id].metadata,
      creator_id |-> token_series_by_id[id].creator_id] :
         id \in DOMAIN token_series_by_id}

\* the orders in which a map with the keys ks can be iterated
KeyOrders(ks) ==
    {q \in [1..Cardinality(ks) -> ks] :
        \A i, j \in 1..Cardinality(ks) : i # j => q[i] # q[j]}

\* a variant of series_for_all_iter: the first series of the iteration is left out
series_for_all_iter_from_second(keys) ==
    [i \in 1..(Len(keys) - 1) |->
        [token_series_id |-> keys[i + 1],
         metadata |-> token_series_by_id[keys[i + 1]].metadata,
         creator_id |-> token_series_by_id[keys[i + 1]].creator_id]]

\* self.token_series_by_id.iter().map(|se| TokenSeriesJson{..}).collect():
\* the Vec returned when the map is iterated in the order keys
series_for_all_iter(keys) ==
    [i \in 1..Len(keys) |->
        [token_series_id |-> keys[i],
         metadata |-> token_series_by_id[keys[i]].metadata,
         creator_id |-> token_series_by_id[keys[i]].creator_id]]

nft_series_for_all ==
    /\ \E keys \in KeyOrders(DOMAIN token_series_by_id) :
          Len(series_for_all_iter(keys)) = Cardinality(series_for_all)
    /\ UNCHANGED vars

(***************************************************************************)
(* Minting and transfer (lib.rs, delegating to the token core).            *)
(***************************************************************************)
mint(caller, deposit, token_series_id, receiver_id) ==
    IF caller # owner_id
      THEN Panic("Unauthorized")
    ELSE IF token_series_id \notin DOMAIN token_series_by_id
      THEN Panic("Token series not exist")
    ELSE IF ~token_series_by_id[token_series_id].is_mintable
      THEN Panic("Token series is not mintable")
    ELSE IF required_cost(mint_storage_bytes) > deposit
      THEN Panic("Must attach yoctoNEAR to cover storage")
    ELSE LET token_series == token_series_by_id[token_series_id]
             token_id == token_series_id \o ":" \o
                            ToString(Cardinality(token_series.tokens) + 1)
         IN  [Ok EXCEPT
                !.owner_by_id = MapInsert(owner_by_id, token_id, receiver_id),
                !.token_series_by_id =
                    [token_series_by_id EXCEPT ![token_series_id].tokens =
                        @ \cup {token_id}],
                !.refund = deposit - required_cost(mint_storage_bytes),
                !.ret = Some([token_id |-> token_id,
                              owner_id |-> receiver_id,
                              metadata |-> Some(token_series.metadata),
                              approved_account_ids |->
                                 IF approvals_by_id = None THEN None
                                 ELSE Some(EmptyMap)])]

\* a variant of nft_mint: the series registry is handed over by value, so the
\* token is not entered into its series
nft_mint_on_copy(caller, deposit, token_series_id, receiver_id) ==
    LET outcome == mint(caller, deposit, token_series_id, receiver_id)
    IN  /\ Commit([outcome EXCEPT !.token_series_by_id = token_series_by_id])
        /\ minted' =
              IF outcome.result # "ok" THEN minted
              ELSE Append(minted, [token_series_id |-> token_series_id,
                                   token_id |-> outcome.ret[1].token_id])
        /\ UNCHANGED <<issued, created, paid>>

nft_mint(caller, deposit, token_series_id, receiver_id) ==
    LET outcome == mint(caller, deposit, token_series_id, receiver_id)
    IN  /\ Commit(outcome)
        /\ minted' =
              IF outcome.result # "ok" THEN minted
              ELSE Append(minted, [token_series_id |-> token_series_id,
                                   token_id |-> outcome.ret[1].token_id])
        /\ UNCHANGED <<issued, created, paid>>

\* NonFungibleToken::nft_transfer of the token core
transfer(caller, deposit, receiver_id, token_id, approval_id) ==
    IF deposit # 1
      THEN Panic("Requires attached deposit of exactly 1 yoctoNEAR")
    ELSE IF token_id \notin DOMAIN owner_by_id
      THEN Panic("Token not found")
    ELSE LET owner == owner_by_id[token_id]
             approved_account_ids ==
                IF approvals_by_id = None THEN None
                ELSE MapGet(approvals_by_id[1], token_id)
             sender_approval ==
                IF approved_account_ids = None THEN None
                ELSE MapGet(approved_account_ids[1], caller)
         IN  IF caller # owner /\ sender_approval = None
               THEN Panic("Sender not approved")
             ELSE IF caller # owner /\ approval_id # None
                                    /\ approval_id # sender_approval
               THEN Panic("The actual approval_id is different from the given approval_id")
             ELSE IF owner = receiver_id
               THEN Panic("Current and next owner must differ")
             ELSE [Ok EXCEPT
                     !.owner_by_id = [owner_by_id EXCEPT ![token_id] = receiver_id],
                     !.approvals_by_id =
                        IF approvals_by_id = None THEN None
                        ELSE Some(MapRemove(approvals_by_id[1], token_id)),
                     !.refund =
                        IF approved_account_ids = None THEN 0
                        ELSE refund_approved_account_ids(approved_account_ids[1])]

\* a variant of nft_transfer: the approvals of the token stay in the ledger
nft_transfer_keeping_approvals(caller, deposit, receiver_id, token_id, approval_id) ==
    /\ Commit([transfer(caller, deposit, receiver_id, token_id, approval_id)
                  EXCEPT !.approvals_by_id = approvals_by_id])
    /\ UNCHANGED <<issued, created, minted, paid>>

nft_transfer(caller, deposit, receiver_id, token_id, approval_id) ==
    LET outcome == transfer(caller, deposit, receiver_id, token_id, approval_id)
    IN  /\ Commit(outcome)
        /\ paid' = IF outcome.result # "ok" THEN paid ELSE MapRemove(paid, token_id)
        /\ UNCHANGED <<issued, created, minted>>

\* What nft_token returns on the owners map obi, the ledger abi and the
\* series registry tsbi: the token with its owner, the metadata of its series
\* and its approved accounts.
token_in(obi, abi, tsbi, token_id) ==
    IF token_id \notin DOMAIN obi THEN None
    ELSE LET series == {id \in DOMAIN tsbi : token_id \in tsbi[id].tokens}
         IN  Some([token_id |-> token_id,
                   owner_id |-> obi[token_id],
                   metadata |->
                      IF series = {} THEN None
                      ELSE Some(tsbi[CHOOSE id \in series : TRUE].metadata),
                   approved_account_ids |->
                      IF abi = None THEN None
                      ELSE IF token_id \in DOMAIN abi[1]
                             THEN Some(abi[1][token_id])
                             ELSE Some(EmptyMap)])

\* a view call: NonFungibleToken::nft_token of the token core
token(token_id) ==
    token_in(owner_by_id, approvals_by_id, token_series_by_id, token_id)

nft_token(token_id) ==
    /\ Len(token(token_id)) <= 1
    /\ UNCHANGED vars

(***************************************************************************)
(* Approval ledger (approval/approval_impl.rs).                            *)
(***************************************************************************)
GAS_FOR_NFT_APPROVE == 10

\* a variant of assert_one_yocto: any deposit of one yoctoNEAR or more passes
assert_one_yocto_or_more(deposit) == deposit >= 1

assert_at_least_one_yocto(deposit) == deposit >= 1
assert_one_yocto(deposit) == deposit = 1

\* approvals_by_id.get(&token_id).unwrap_or_default()
approved_account_ids_of(by_id, token_id) ==
    IF token_id \in DOMAIN by_id THEN by_id[token_id] ELSE EmptyMap

\* a variant of next_approval_id: the stored id is not read
next_approval_id_unread(next_by_id, token_id) == 1

\* a variant of next_approval_id: the first id of a token is the default of u64
next_approval_id_from_default(next_by_id, token_id) ==
    IF token_id \in DOMAIN next_by_id THEN next_by_id[token_id] ELSE 0

\* next_approval_id_by_id.get(&token_id).unwrap_or(1u64)
next_approval_id(next_by_id, token_id) ==
    IF token_id \in DOMAIN next_by_id THEN next_by_id[token_id] ELSE 1

\* a variant of insert_approval: the account is not inserted
insert_approval_dropped(approved_account_ids, account_id, approval_id) ==
    approved_account_ids

\* approved_account_ids.insert(account_id.clone(), approval_id)
insert_approval(approved_account_ids, account_id, approval_id) ==
    MapInsert(approved_account_ids, account_id, approval_id)

\* a variant of insert_next_approval_id: the counter skips an id
insert_next_approval_id_by_two(next_by_id, token_id, approval_id) ==
    MapInsert(next_by_id, token_id, approval_id + 2)

\* a variant of insert_next_approval_id: the id is stored without the increment
insert_next_approval_id_same(next_by_id, token_id, approval_id) ==
    MapInsert(next_by_id, token_id, approval_id)

\* next_approval_id_by_id.insert(&token_id, &(approval_id + 1))
insert_next_approval_id(next_by_id, token_id, approval_id) ==
    MapInsert(next_by_id, token_id, approval_id + 1)

\* a variant of remove_approval: every account is taken out of the map
remove_approval_of_all(approved_account_ids, account_id) == EmptyMap

\* a variant of remove_approval: the account stays in the map
remove_approval_kept(approved_account_ids, account_id) == approved_account_ids

\* approved_account_ids.remove(&account_id)
remove_approval(approved_account_ids, account_id) ==
    MapRemove(approved_account_ids, account_id)

\* a variant of remove_approvals: the entry of the token stays in the ledger
remove_approvals_kept(by_id, token_id) == by_id

\* approvals_by_id.remove(&token_id)
remove_approvals(by_id, token_id) == MapRemove(by_id, token_id)

\* a variant of is_empty: no mapping counts as empty
is_empty_never(approved_account_ids) == FALSE

\* approved_account_ids.is_empty()
is_empty(approved_account_ids) == DOMAIN approved_account_ids = {}

\* a variant of predecessor_is_owner: any caller passes
predecessor_is_anyone(caller, owner) == TRUE

\* require!(env::predecessor_account_id() == owner_id, ...)
predecessor_is_owner(caller, owner) == caller = owner

\* a variant of storage_used_by: no approval is counted as storage
storage_used_by_nothing(old_approval_id, account_id) == 0

\* a variant of storage_used_by: a re-approval is charged like a new account
storage_used_by_any(old_approval_id, account_id) ==
    bytes_for_approved_account_id(account_id)

\* if old_approval_id.is_none() { bytes_for_approved_account_id(..) } else { 0 }
storage_used_by(old_approval_id, account_id) ==
    IF old_approval_id = None THEN bytes_for_approved_account_id(account_id) ELSE 0

\* a variant of schedule_nft_on_approve: the call is addressed to the owner
schedule_nft_on_approve_to_owner(queue, msg, account_id, gas, token_id, owner, id) ==
    IF msg = None THEN queue
    ELSE Append(queue, [receiver_id |-> owner,
                        method |-> "nft_on_approve",
                        gas |-> gas,
                        token_id |-> token_id,
                        owner_id |-> owner,
                        approval_id |-> id,
                        msg |-> msg[1]])

\* msg.map(|msg| ext_nft_approval_receiver::ext(account_id)
\*                  .with_static_gas(..).nft_on_approve(..))
schedule_nft_on_approve(queue, msg, account_id, gas, token_id, owner, id) ==
    IF msg = None THEN queue
    ELSE Append(queue, [receiver_id |-> account_id,
                        method |-> "nft_on_approve",
                        gas |-> gas,
                        token_id |-> token_id,
                        owner_id |-> owner,
                        approval_id |-> id,
                        msg |-> msg[1]])

approve(caller, deposit, prepaid_gas, token_id, account_id, msg) ==
    IF ~assert_at_least_one_yocto(deposit)
      THEN Panic("Requires attached deposit of at least 1 yoctoNEAR")
    ELSE IF approvals_by_id = None
      THEN Panic("NFT does not support Approval Management")
    ELSE IF token_id \notin DOMAIN owner_by_id
      THEN Panic("Token not found")
    ELSE IF ~predecessor_is_owner(caller, owner_by_id[token_id])
      THEN Panic("Predecessor must be token owner.")
    ELSE IF next_approval_id_by_id = None
      THEN Panic("next_approval_by_id must be set for approval ext")
    ELSE LET owner == owner_by_id[token_id]
             approved_account_ids ==
                approved_account_ids_of(approvals_by_id[1], token_id)
             approval_id == next_approval_id(next_approval_id_by_id[1], token_id)
             old_approval_id == MapGet(approved_account_ids, account_id)
             storage_used == storage_used_by(old_approval_id, account_id)
         IN  IF required_cost(storage_used) > deposit
               THEN Panic("Must attach yoctoNEAR to cover storage")
             ELSE IF msg # None /\ prepaid_gas < GAS_FOR_NFT_APPROVE
               THEN Panic("attempt to subtract with overflow")
             ELSE [Ok EXCEPT
                     !.approvals_by_id =
                        Some(MapInsert(approvals_by_id[1], token_id,
                            insert_approval(approved_account_ids, account_id,
                                            approval_id))),
                     !.next_approval_id_by_id =
                        Some(insert_next_approval_id(next_approval_id_by_id[1],
                                                     token_id, approval_id)),
                     !.promises =
                        schedule_nft_on_approve(promises, msg, account_id,
                            prepaid_gas - GAS_FOR_NFT_APPROVE, token_id, owner,
                            approval_id),
                     !.approval_id = Some(approval_id),
                     !.refund = deposit - required_cost(storage_used),
                     !.ret = IF msg = None THEN None ELSE Some("Promise")]

nft_approve(caller, deposit, prepaid_gas, token_id, account_id, msg) ==
    LET outcome == approve(caller, deposit, prepaid_gas, token_id, account_id, msg)
    IN  /\ Commit(outcome)
        /\ issued' =
              IF outcome.result # "ok" THEN issued
              ELSE MapInsert(issued, token_id,
                      Append(IF token_id \in DOMAIN issued THEN issued[token_id]
                             ELSE <<>>,
                             outcome.approval_id[1]))
        /\ paid' =
              IF outcome.result # "ok" THEN paid
              ELSE Charged(token_id, deposit - outcome.refund)
        /\ UNCHANGED <<created, minted>>

\* a variant of revoke_refund: the account is refunded twice
revoke_refund_twice(approved_account_ids, account_id) ==
    2 * refund_approved_account_ids_iter({account_id})

\* a variant of revoke_refund: the whole entry of the token is refunded
revoke_refund_whole_entry(approved_account_ids, account_id) ==
    refund_approved_account_ids(approved_account_ids)

\* refund_approved_account_ids_iter(predecessor, core::iter::once(&account_id))
revoke_refund(approved_account_ids, account_id) ==
    refund_approved_account_ids_iter({account_id})

\* a variant of revoke: an account that is not approved is an error
revoke_strict(caller, deposit, token_id, account_id) ==
    IF ~assert_one_yocto(deposit)
      THEN Panic("Requires attached deposit of exactly 1 yoctoNEAR")
    ELSE IF approvals_by_id = None
      THEN Panic("NFT does not support Approval Management")
    ELSE IF token_id \notin DOMAIN owner_by_id
      THEN Panic("Token not found")
    ELSE IF ~predecessor_is_owner(caller, owner_by_id[token_id])
      THEN Panic("Predecessor must be token owner.")
    ELSE IF token_id \in DOMAIN approvals_by_id[1]
            /\ account_id \in DOMAIN approvals_by_id[1][token_id]
      THEN LET approved_account_ids ==
                   remove_approval(approvals_by_id[1][token_id], account_id)
           IN  [Ok EXCEPT
                  !.approvals_by_id =
                     IF is_empty(approved_account_ids)
                       THEN Some(remove_approvals(approvals_by_id[1], token_id))
                       ELSE Some(MapInsert(approvals_by_id[1], token_id,
                                           approved_account_ids)),
                  !.refund = revoke_refund(approvals_by_id[1][token_id], account_id)]
      ELSE Panic("Account is not approved")

revoke(caller, deposit, token_id, account_id) ==
    IF ~assert_one_yocto(deposit)
      THEN Panic("Requires attached deposit of exactly 1 yoctoNEAR")
    ELSE IF approvals_by_id = None
      THEN Panic("NFT does not support Approval Management")
    ELSE IF token_id \notin DOMAIN owner_by_id
      THEN Panic("Token not found")
    ELSE IF ~predecessor_is_owner(caller, owner_by_id[token_id])
      THEN Panic("Predecessor must be token owner.")
    ELSE IF token_id \in DOMAIN approvals_by_id[1]
            /\ account_id \in DOMAIN approvals_by_id[1][token_id]
      THEN LET approved_account_ids ==
                   remove_approval(approvals_by_id[1][token_id], account_id)
           IN  [Ok EXCEPT
                  !.approvals_by_id =
                     IF is_empty(approved_account_ids)
                       THEN Some(remove_approvals(approvals_by_id[1], token_id))
                       ELSE Some(MapInsert(approvals_by_id[1], token_id,
                                           approved_account_ids)),
                  !.refund = revoke_refund(approvals_by_id[1][token_id], account_id)]
      ELSE Ok

nft_revoke(caller, deposit, token_id, account_id) ==
    LET outcome == revoke(caller, deposit, token_id, account_id)
    IN  /\ Commit(outcome)
        /\ paid' = Charged(token_id, 0 - outcome.refund)
        /\ UNCHANGED <<issued, created, minted>>

revoke_all(caller, deposit, token_id) ==
    IF ~assert_one_yocto(deposit)
      THEN Panic("Requires attached deposit of exactly 1 yoctoNEAR")
    ELSE IF approvals_by_id = None
      THEN Panic("NFT does not support Approval Management")
    ELSE IF token_id \notin DOMAIN owner_by_id
      THEN Panic("Token not found")
    ELSE IF ~predecessor_is_owner(caller, owner_by_id[token_id])
      THEN Panic("Predecessor must be token owner.")
    ELSE IF token_id \in DOMAIN approvals_by_id[1]
      THEN [Ok EXCEPT
              !.approvals_by_id = Some(remove_approvals(approvals_by_id[1], token_id)),
              !.refund = refund_approved_account_ids(approvals_by_id[1][token_id])]
      ELSE Ok

nft_revoke_all(caller, deposit, token_id) ==
    LET outcome == revoke_all(caller, deposit, token_id)
    IN  /\ Commit(outcome)
        /\ paid' = Charged(token_id, 0 - outcome.refund)
        /\ UNCHANGED <<issued, created, minted>>

\* a variant of is_approved_in: the given approval id is not compared
is_approved_in_any_id(obi, abi, token_id, approved_account_id, approval_id) ==
    IF token_id \notin DOMAIN obi
      THEN [result |-> "Token not found", ret |-> None]
    ELSE IF abi = None
      THEN [result |-> "ok", ret |-> Some(FALSE)]
    ELSE IF token_id \notin DOMAIN abi[1]
      THEN [result |-> "ok", ret |-> Some(FALSE)]
    ELSE IF approved_account_id \notin DOMAIN abi[1][token_id]
      THEN [result |-> "ok", ret |-> Some(FALSE)]
    ELSE [result |-> "ok", ret |-> Some(TRUE)]

\* a variant of is_approved_in: the ledger is looked up before the token
is_approved_in_ledger_first(obi, abi, token_id, approved_account_id, approval_id) ==
    IF abi = None
      THEN [result |-> "ok", ret |-> Some(FALSE)]
    ELSE IF token_id \notin DOMAIN abi[1]
      THEN [result |-> "ok", ret |-> Some(FALSE)]
    ELSE IF token_id \notin DOMAIN obi
      THEN [result |-> "Token not found", ret |-> None]
    ELSE IF approved_account_id \notin DOMAIN abi[1][token_id]
      THEN [result |-> "ok", ret |-> Some(FALSE)]
    ELSE IF approval_id # None
      THEN [result |-> "ok",
            ret |-> Some(approval_id[1] = abi[1][token_id][approved_account_id])]
    ELSE [result |-> "ok", ret |-> Some(TRUE)]

\* What nft_is_approved computes on the owners map obi and the ledger abi (an
\* Option of the approvals map): a panic, or the boolean it returns.
is_approved_in(obi, abi, token_id, approved_account_id, approval_id) ==
    IF token_id \notin DOMAIN obi
      THEN [result |-> "Token not found", ret |-> None]
    ELSE IF abi = None
      THEN [result |-> "ok", ret |-> Some(FALSE)]
    ELSE IF token_id \notin DOMAIN abi[1]
      THEN [result |-> "ok", ret |-> Some(FALSE)]
    ELSE IF approved_account_id \notin DOMAIN abi[1][token_id]
      THEN [result |-> "ok", ret |-> Some(FALSE)]
    ELSE IF approval_id # None
      THEN [result |-> "ok",
            ret |-> Some(approval_id[1] = abi[1][token_id][approved_account_id])]
    ELSE [result |-> "ok", ret |-> Some(TRUE)]

is_approved(token_id, approved_account_id, approval_id) ==
    is_approved_in(owner_by_id, approvals_by_id, token_id, approved_account_id,
                   approval_id)

\* a view call (&self): no state is written
nft_is_approved(token_id, approved_account_id, approval_id) ==
    /\ is_approved(token_id, approved_account_id, approval_id).result
          \in {"ok", "Token not found"}
    /\ UNCHANGED vars

\* a variant of nft_on_approve: a call that fails takes the approval back
nft_on_approve_rolls_back(i) ==
    /\ i \in 1..Len(promises)
    /\ promises' = SubSeq(promises, 1, i - 1) \o SubSeq(promises, i + 1, Len(promises))
    /\ approvals_by_id' = Some(remove_approvals(approvals_by_id[1], promises[i].token_id))
    /\ UNCHANGED <<owner_id, token_series_by_id, owner_by_id,
                   next_approval_id_by_id, issued, created, minted, paid>>

\* The host runs a scheduled nft_on_approve on the approved account; whether
\* the receiver succeeds or fails, nothing comes back to this contract.
nft_on_approve(i) ==
    /\ i \in 1..Len(promises)
    /\ promises' = SubSeq(promises, 1, i - 1) \o SubSeq(promises, i + 1, Len(promises))
    /\ UNCHANGED <<owner_id, token_series_by_id, owner_by_id, approvals_by_id,
                   next_approval_id_by_id, issued, created, minted, paid>>

(***************************************************************************)
(* The contract as a state machine.                                        *)
(***************************************************************************)
\* attached deposits, in yoctoNEAR: for approve, for the calls that take
\* exactly one yoctoNEAR, and for the calls that pay for a record
ApproveDeposits == {0, 1, 160, 5000}
OneYoctoDeposits == {0, 1, 2}
StorageDeposits == {0, 5000}

TokenIdInputs == (DOMAIN owner_by_id) \cup {"0"}
SeriesIdInputs == (DOMAIN token_series_by_id) \cup {"0"}
ApprovalIdInputs == {None} \cup {Some(n) : n \in 1..MaxApprovalId}

\* the model stops growing at its bounds
WithinBounds ==
    /\ Cardinality(DOMAIN token_series_by_id') <= MaxSeries
    /\ Cardinality(DOMAIN owner_by_id') <= MaxTokens
    /\ next_approval_id_by_id' # None =>
          \A t \in DOMAIN next_approval_id_by_id'[1] :
              next_approval_id_by_id'[1][t] <= MaxApprovalId + 1
    /\ Len(promises') <= MaxPromises

\* The approval ledger: series are created by one account at one price and
\* approvals carry no message, so that no notification is scheduled.
Next ==
    \/ \E d \in StorageDeposits, m \in Metadatas, p \in {Some(U128(0)), Some(MAX_PRICE)} :
          nft_create_series("bob", d, m, p) /\ WithinBounds
    \/ nft_series_for_all
    \/ \E c \in Accounts, d \in StorageDeposits, s \in SeriesIdInputs, r \in Accounts :
          nft_mint(c, d, s, r) /\ WithinBounds
    \/ \E c \in Accounts, d \in OneYoctoDeposits, r \in Accounts, t \in TokenIdInputs,
          n \in ApprovalIdInputs :
          nft_transfer(c, d, r, t, n)
    \/ \E t \in TokenIdInputs : nft_token(t)
    \/ \E c \in Accounts, d \in ApproveDeposits, t \in TokenIdInputs, a \in Accounts :
          nft_approve(c, d, 30, t, a, None) /\ WithinBounds
    \/ \E c \in Accounts, d \in OneYoctoDeposits, t \in TokenIdInputs, a \in Accounts :
          nft_revoke(c, d, t, a)
    \/ \E c \in Accounts, d \in OneYoctoDeposits, t \in TokenIdInputs :
          nft_revoke_all(c, d, t)
    \/ \E t \in TokenIdInputs, a \in Accounts, n \in ApprovalIdInputs :
          nft_is_approved(t, a, n)

Spec == Init /\ [][Next]_vars

\* The notifications: approvals may carry a message, and the host delivers
\* the scheduled calls in any order; tokens are minted and transferred to two
\* accounts and two accounts are approved.
NextNotify ==
    \/ \E d \in StorageDeposits : nft_create_series("bob", d, sample_token_metadata, None)
          /\ WithinBounds
    \/ \E d \in StorageDeposits, s \in SeriesIdInputs, r \in {"alice", "bob"} :
          nft_mint("alice", d, s, r) /\ WithinBounds
    \/ \E c \in Accounts, d \in {0, 5000}, g \in {5, 30}, t \in TokenIdInputs,
          a \in {"bob", "charlie"}, m \in {None, Some("msg")} :
          nft_approve(c, d, g, t, a, m) /\ WithinBounds
    \/ \E c \in Accounts, t \in TokenIdInputs, a \in {"bob", "charlie"} :
          nft_revoke(c, 1, t, a)
    \/ \E c \in Accounts, t \in TokenIdInputs :
          nft_revoke_all(c, 1, t)
    \/ \E c \in Accounts, r \in {"alice", "bob"}, t \in TokenIdInputs :
          nft_transfer(c, 1, r, t, None)
    \/ \E i \in 1..MaxPromises : nft_on_approve(i)

SpecNotify == Init /\ [][NextNotify]_vars

\* the series registry stops growing at its own bounds
SeriesWithinBounds ==
    /\ Len(created') <= MaxSeriesIds
    /\ Len(minted') <= MaxMinted

\* The series registry: series are created by one account with every kind
\* of metadata and price, and tokens are minted from them to two accounts; no
\* token is transferred or approved.
NextSeries ==
    \/ \E d \in StorageDeposits, m \in Metadatas, p \in Prices :
          nft_create_series("bob", d, m, p) /\ SeriesWithinBounds
    \/ nft_series_for_all
    \/ \E c \in {"alice", "bob"}, d \in StorageDeposits, s \in SeriesIdInputs,
          r \in {"bob", "charlie"} :
          nft_mint(c, d, s, r) /\ SeriesWithinBounds
    \/ \E t \in TokenIdInputs : nft_token(t)

SpecSeries == Init /\ [][NextSeries]_vars

(***************************************************************************)
(* Properties of the approval ledger.  A property of a call is stated of   *)
(* its outcome, for every input, in every reachable state.                 *)
(***************************************************************************)
AnyDeposits == ApproveDeposits \cup OneYoctoDeposits \cup StorageDeposits
Gases == {5, 30}
Msgs == {None, Some("msg")}
AnyApprovalIds == {None} \cup {Some(n) : n \in 0..(MaxApprovalId + 2)}

Yes == [result |-> "ok", ret |-> Some(TRUE)]
No == [result |-> "ok", ret |-> Some(FALSE)]

\* the approval ids assigned on a token so far, in order
IssuedOn(token_id) == IF token_id \in DOMAIN issued THEN issued[token_id] ELSE <<>>

\* the approved accounts of a token in the ledger abi
ApprovedOn(abi, token_id) ==
    IF abi # None /\ token_id \in DOMAIN abi[1] THEN abi[1][token_id] ELSE EmptyMap

\* C1: right after a successful approve(T, A, msg), is_approved(T, A, None) is
\* true and is_approved(T, A, Some(id)) is true for the id this approve assigned.
C1_ApproveThenIsApproved ==
    \A c \in Accounts, d \in AnyDeposits, g \in Gases, t \in TokenIdInputs,
       a \in Accounts, m \in Msgs :
        LET o == approve(c, d, g, t, a, m)
        IN  o.result = "ok" =>
              /\ o.approval_id # None
              /\ is_approved_in(o.owner_by_id, o.approvals_by_id, t, a, None) = Yes
              /\ is_approved_in(o.owner_by_id, o.approvals_by_id, t, a,
                                o.approval_id) = Yes

\* an approve has committed on T: A holds the id assigned last on T
C1_Witness ==
    \E t \in DOMAIN owner_by_id, a \in Accounts :
        /\ IssuedOn(t) # <<>>
        /\ is_approved(t, a, None) = Yes
        /\ is_approved(t, a, Some(IssuedOn(t)[Len(IssuedOn(t))])) = Yes

\* C2: the approval ids assigned on a token are strictly increasing over the
\* token's life, revokes and revoke_alls included: the ids assigned so far are
\* in increasing order, and the id the next successful approve assigns is
\* greater than all of them.
C2_IdsStrictlyIncreasing ==
    /\ \A t \in DOMAIN issued :
          \A i, j \in 1..Len(issued[t]) : i < j => issued[t][i] < issued[t][j]
    /\ \A c \in Accounts, d \in AnyDeposits, g \in Gases, t \in TokenIdInputs,
          a \in Accounts, m \in Msgs :
          LET o == approve(c, d, g, t, a, m)
          IN  o.result = "ok" =>
                \A i \in 1..Len(IssuedOn(t)) : IssuedOn(t)[i] < o.approval_id[1]

\* ids 1 and 2 were assigned on T and only the holder of 1 is left: the holder
\* of 2 was revoked; the owner can approve again
C2_Witness ==
    \E t \in DOMAIN owner_by_id, a, b \in Accounts :
        /\ IssuedOn(t) = <<1, 2>>
        /\ DOMAIN ApprovedOn(approvals_by_id, t) = {a}
        /\ ApprovedOn(approvals_by_id, t)[a] = 1
        /\ approve(owner_by_id[t], 5000, 30, t, b, None).result = "ok"

\* C3: for an existing token T, is_approved(T, A, Some(n)) is true exactly when
\* the ledger maps A to n on T; an id assigned earlier on T that A does not
\* hold now (revoked or superseded) is refused.
C3_IsApprovedExactId ==
    /\ \A t \in DOMAIN owner_by_id, a \in Accounts, n \in 0..(MaxApprovalId + 2) :
          is_approved(t, a, Some(n)) =
             IF /\ a \in DOMAIN ApprovedOn(approvals_by_id, t)
                /\ ApprovedOn(approvals_by_id, t)[a] = n
             THEN Yes ELSE No
    /\ \A c \in Accounts, d \in AnyDeposits, g \in Gases, t \in DOMAIN owner_by_id,
          a \in Accounts, m \in Msgs :
          LET o == approve(c, d, g, t, a, m)
              held == ApprovedOn(approvals_by_id, t)
          IN  o.result = "ok" /\ a \in DOMAIN held =>
                is_approved_in(o.owner_by_id, o.approvals_by_id, t, a,
                               Some(held[a])) = No

\* A holds id 2 on T, id 1 was assigned on T before: 1 is refused for A, and
\* so is it for an account that holds nothing
C3_Witness ==
    \E t \in DOMAIN owner_by_id, a, b \in Accounts :
        /\ IssuedOn(t) = <<1, 2>>
        /\ is_approved(t, a, Some(2)) = Yes
        /\ is_approved(t, a, Some(1)) = No
        /\ b \notin DOMAIN ApprovedOn(approvals_by_id, t)
        /\ is_approved(t, b, Some(1)) = No

\* C4: the k-th successful approve on a token assigns id k, whoever is approved
\* and whatever was revoked in between; 0 is never assigned; a re-approval
\* replaces the account's entry.
C4_KthApproveGetsIdK ==
    /\ \A t \in DOMAIN issued : \A k \in 1..Len(issued[t]) : issued[t][k] = k
    /\ \A c \in Accounts, d \in AnyDeposits, g \in Gases, t \in TokenIdInputs,
          a \in Accounts, m \in Msgs :
          LET o == approve(c, d, g, t, a, m)
              before == ApprovedOn(approvals_by_id, t)
              after == ApprovedOn(o.approvals_by_id, t)
          IN  o.result = "ok" =>
                /\ o.approval_id = Some(Len(IssuedOn(t)) + 1)
                /\ o.approval_id # Some(0)
                /\ DOMAIN after = DOMAIN before \cup {a}
                /\ after[a] = o.approval_id[1]

\* the same account was approved twice on T: it holds id 2 and is the only entry
C4_Witness ==
    \E t \in DOMAIN owner_by_id, a \in Accounts :
        /\ IssuedOn(t) = <<1, 2>>
        /\ ApprovedOn(approvals_by_id, t) = [x \in {a} |-> 2]
        /\ \E u \in DOMAIN owner_by_id : u # t /\ IssuedOn(u) = <<1>>

\* an account that was not approved on a token is approved on it in the next
\* state only by an approve of that account on that token: an id was assigned
\* on the token in this step and the account holds it
ApprovedOnlyByApprove ==
    \A t \in DOMAIN owner_by_id, a \in Accounts :
        (is_approved(t, a, None) = No /\ (is_approved(t, a, None))' = Yes) =>
            /\ Len(IssuedOn(t)') = Len(IssuedOn(t)) + 1
            /\ (is_approved(t, a, Some(IssuedOn(t)[Len(IssuedOn(t))])))' = Yes

\* C5: after a successful revoke(T, A) of an approved A, is_approved(T, A, _)
\* is false with no id and with every id, until A is approved on T again: no
\* step other than an approve of A on T makes it true.
C5_RevokeThenNotApproved ==
    /\ [](\A c \in Accounts, d \in AnyDeposits, t \in TokenIdInputs, a \in Accounts :
            LET o == revoke(c, d, t, a)
            IN  o.result = "ok" /\ is_approved(t, a, None) = Yes =>
                  \A n \in AnyApprovalIds :
                      is_approved_in(o.owner_by_id, o.approvals_by_id, t, a, n) = No)
    /\ [][ApprovedOnlyByApprove]_vars

\* ids 1 and 2 were assigned on T and only the holder of 1 is left: the holder
\* of 2 was revoked and passes no check
C5_Witness ==
    \E t \in DOMAIN owner_by_id, a, b \in Accounts :
        /\ IssuedOn(t) = <<1, 2>>
        /\ ApprovedOn(approvals_by_id, t) = [x \in {a} |-> 1]
        /\ b # a
        /\ is_approved(t, b, None) = No
        /\ is_approved(t, b, Some(2)) = No
        /\ revoke(owner_by_id[t], 1, t, a).result = "ok"

\* C6: after a successful revoke_all(T), is_approved(T, X, _) is false for every
\* account X, with no id and with every id; on a token without approvals
\* revoke_all by the owner succeeds and changes nothing.
C6_RevokeAllThenNoneApproved ==
    \A c \in Accounts, d \in AnyDeposits, t \in TokenIdInputs :
        LET o == revoke_all(c, d, t)
        IN  /\ o.result = "ok" =>
                \A x \in Accounts, n \in AnyApprovalIds :
                    is_approved_in(o.owner_by_id, o.approvals_by_id, t, x, n) = No
            /\ ( /\ approvals_by_id # None
                 /\ t \in DOMAIN owner_by_id
                 /\ c = owner_by_id[t]
                 /\ d = 1
                 /\ DOMAIN ApprovedOn(approvals_by_id, t) = {} ) => o = Ok

\* two accounts are approved on T and none on U: the owners' revoke_all
\* empties T and leaves U as it is
C6_Witness ==
    \E t, u \in DOMAIN owner_by_id :
        /\ Cardinality(DOMAIN ApprovedOn(approvals_by_id, t)) = 2
        /\ DOMAIN ApprovedOn(revoke_all(owner_by_id[t], 1, t).approvals_by_id, t) = {}
        /\ IssuedOn(u) # <<>>
        /\ DOMAIN ApprovedOn(approvals_by_id, u) = {}
        /\ revoke_all(owner_by_id[u], 1, u) = Ok

\* C7: revoke(T, A) by T's owner with exactly one yoctoNEAR, when T has no
\* approval entry or A is not approved on T, returns without error, refunds
\* nothing and leaves T's approvals and next approval id as they are.
C7_RevokeUnapprovedIsNoOp ==
    \A c \in Accounts, d \in AnyDeposits, t \in TokenIdInputs, a \in Accounts :
        ( /\ approvals_by_id # None
          /\ t \in DOMAIN owner_by_id
          /\ c = owner_by_id[t]
          /\ d = 1
          /\ a \notin DOMAIN ApprovedOn(approvals_by_id, t) ) =>
            LET o == revoke(c, d, t, a)
            IN  /\ o.result = "ok"
                /\ o.refund = 0
                /\ o.approvals_by_id = approvals_by_id
                /\ o.next_approval_id_by_id = next_approval_id_by_id
                /\ o.promises = promises

\* T has an approval for B and none for A, U has no approval entry: the
\* owners' revoke of A on T and on U return and change nothing
C7_Witness ==
    \E t, u \in DOMAIN owner_by_id, a, b \in Accounts :
        /\ b \in DOMAIN ApprovedOn(approvals_by_id, t)
        /\ a \notin DOMAIN ApprovedOn(approvals_by_id, t)
        /\ revoke(owner_by_id[t], 1, t, a) = Ok
        /\ u \notin DOMAIN approvals_by_id[1]
        /\ revoke(owner_by_id[u], 1, u, a) = Ok

\* the writes of an outcome to the approval ledger, the next approval ids and
\* the scheduled notifications
LedgerOf(o) == <<o.approvals_by_id, o.next_approval_id_by_id, o.promises>>
Ledger == <<approvals_by_id, next_approval_id_by_id, promises>>

\* C8: approve, revoke and revoke_all by an account that is not the token's
\* current owner, on an unknown token or with approval management disabled
\* abort and leave the ledger, the next approval ids and the scheduled
\* notifications as they are; a call that changes them is the owner's.
C8_OnlyOwnerChangesApprovals ==
    \A c \in Accounts, d \in AnyDeposits, t \in TokenIdInputs, a \in Accounts :
        LET Refused(o) == o.result # "ok" /\ LedgerOf(o) = Ledger
            OwnerOnly(o) ==
                LedgerOf(o) # Ledger => t \in DOMAIN owner_by_id /\ c = owner_by_id[t]
            unauthorized ==
                \/ approvals_by_id = None
                \/ t \notin DOMAIN owner_by_id
                \/ c # owner_by_id[t]
        IN  /\ \A g \in Gases, m \in Msgs :
                /\ unauthorized => Refused(approve(c, d, g, t, a, m))
                /\ OwnerOnly(approve(c, d, g, t, a, m))
            /\ unauthorized => Refused(revoke(c, d, t, a))
            /\ OwnerOnly(revoke(c, d, t, a))
            /\ unauthorized => Refused(revoke_all(c, d, t))
            /\ OwnerOnly(revoke_all(c, d, t))

\* a token with an approval and a scheduled notification: an account that does
\* not own it is refused all three calls, its owner is not
C8_Witness ==
    \E t \in DOMAIN owner_by_id, c, a \in Accounts :
        /\ c # owner_by_id[t]
        /\ a \in DOMAIN ApprovedOn(approvals_by_id, t)
        /\ promises # <<>>
        /\ approve(c, 5000, 30, t, a, Some("msg")).result = "Predecessor must be token owner."
        /\ revoke(c, 1, t, a).result = "Predecessor must be token owner."
        /\ revoke_all(c, 1, t).result = "Predecessor must be token owner."
        /\ revoke(owner_by_id[t], 1, t, a).result = "ok"
        /\ approve(c, 5000, 30, "0", a, None).result = "Token not found"

\* C9: approve aborts with no deposit attached, revoke and revoke_all abort
\* with a deposit other than exactly one yoctoNEAR; nothing is written and
\* nothing is refunded.
C9_DepositRequired ==
    \A c \in Accounts, d \in AnyDeposits, t \in TokenIdInputs, a \in Accounts :
        LET Aborted(o) == o.result # "ok" /\ o = Panic(o.result)
        IN  /\ d = 0 => \A g \in Gases, m \in Msgs : Aborted(approve(c, d, g, t, a, m))
            /\ d # 1 => Aborted(revoke(c, d, t, a))
            /\ d # 1 => Aborted(revoke_all(c, d, t))

\* A is approved on T: the owner's calls are refused with the wrong deposit,
\* and pass with the right one
C9_Witness ==
    \E t \in DOMAIN owner_by_id, a \in Accounts :
        /\ a \in DOMAIN ApprovedOn(approvals_by_id, t)
        /\ approve(owner_by_id[t], 0, 30, t, a, None).result # "ok"
        /\ approve(owner_by_id[t], 1, 30, t, a, None).result = "ok"
        /\ \A d \in {0, 2, 160} :
              /\ revoke(owner_by_id[t], d, t, a).result # "ok"
              /\ revoke_all(owner_by_id[t], d, t).result # "ok"
        /\ revoke(owner_by_id[t], 1, t, a).result = "ok"
        /\ revoke_all(owner_by_id[t], 1, t).result = "ok"

SeriesIds(n) == {ToString(k) : k \in 1..n}

\* C11: after any sequence of create_series calls, the series ids of the
\* registry are exactly "1" .. "n" for n the number of successful calls, the
\* k-th successful call returned k stringified (so no id is returned twice),
\* a failing call leaves the registry as it is and the next successful call
\* returns n + 1 stringified, an id the registry does not hold.
C11_SeriesIdsConsecutive ==
    /\ \A k \in 1..Len(created) : created[k] = ToString(k)
    /\ DOMAIN token_series_by_id = SeriesIds(Len(created))
    /\ \A c \in Accounts, d \in StorageDeposits, m \in Metadatas, p \in Prices :
          LET o == create_series(c, d, m, p)
          IN  IF o.result = "ok"
                THEN /\ o.ret[1].token_series_id = ToString(Len(created) + 1)
                     /\ o.ret[1].token_series_id \notin DOMAIN token_series_by_id
                     /\ DOMAIN o.token_series_by_id = SeriesIds(Len(created) + 1)
                ELSE /\ o.ret = None
                     /\ o.token_series_by_id = token_series_by_id

\* three series were created; a call without a title fails here and the
\* registry it leaves still holds "1", "2" and "3"
C11_Witness ==
    /\ created = <<"1", "2", "3">>
    /\ LET o == create_series("bob", 5000, [title |-> None], None)
       IN  o.result # "ok" /\ DOMAIN o.token_series_by_id = {"1", "2", "3"}

\* C12: create_series aborts when the title is absent and when a price at or
\* above MAX_PRICE is supplied; with a title and the storage paid, the prices
\* 0 and MAX_PRICE - 1 and no price pass; a call that aborts leaves the
\* registry as it is and logs no creation event.
C12_TitleAndPriceChecked ==
    \A c \in Accounts, d \in StorageDeposits, m \in Metadatas, p \in Prices :
        LET o == create_series(c, d, m, p)
        IN  /\ m.title = None => o.result # "ok"
            /\ p = Some(MAX_PRICE) => o.result # "ok"
            /\ ( /\ m.title # None
                 /\ p \in {None, Some(U128(0)), Some(MAX_PRICE_MINUS_1)}
                 /\ d >= required_cost(series_storage_bytes) ) =>
                   /\ o.result = "ok"
                   /\ o.log # None
                   /\ o.token_series_by_id[o.ret[1].token_series_id].price = p
            /\ o.result # "ok" =>
                   /\ o.token_series_by_id = token_series_by_id
                   /\ o.log = None
                   /\ o = Panic(o.result)

\* series with no price, price 0 and price MAX_PRICE - 1 were created; a call
\* with price MAX_PRICE and one without a title abort here
C12_Witness ==
    /\ {token_series_by_id[id].price : id \in DOMAIN token_series_by_id}
          = {None, Some(U128(0)), Some(MAX_PRICE_MINUS_1)}
    /\ create_series("bob", 5000, sample_token_metadata, Some(MAX_PRICE)).result
          = "FireFly: price higher than MAX_PRICE"
    /\ create_series("bob", 5000, [title |-> None], Some(U128(0))).result
          = "FireFly: token_metadata.title is required"

(***************************************************************************)
(* Properties of the storage accounting and of the notifications.          *)
(***************************************************************************)
\* the cost of the bytes of one (account, approval id) pair
PairCost(account_id) == (Len(account_id) + 4 + 8) * storage_byte_cost

\* the cost of the pairs of a set of accounts out of alice, bob and charlie
PairsCost(account_ids) ==
    (IF "alice" \in account_ids THEN PairCost("alice") ELSE 0)
    + (IF "bob" \in account_ids THEN PairCost("bob") ELSE 0)
    + (IF "charlie" \in account_ids THEN PairCost("charlie") ELSE 0)

\* C13: a successful approve(T, A, _) with deposit d refunds d - c to the
\* caller, where c is the cost of the bytes of one (account, id) pair when A
\* was not approved on T before the call and 0 when A was approved on T and
\* the call replaces its id.
C13_ApproveRefund ==
    \A c \in Accounts, d \in AnyDeposits, g \in Gases, t \in TokenIdInputs,
       a \in Accounts, m \in Msgs :
        LET o == approve(c, d, g, t, a, m)
        IN  o.result = "ok" =>
              /\ o.refund >= 0
              /\ o.refund =
                    IF a \in DOMAIN ApprovedOn(approvals_by_id, t) THEN d
                    ELSE d - PairCost(a)

\* A is approved on T and B is not: approving A again returns the whole
\* deposit, approving B returns the deposit less the cost of B's pair
C13_Witness ==
    \E t \in DOMAIN owner_by_id, a, b \in Accounts :
        /\ a \in DOMAIN ApprovedOn(approvals_by_id, t)
        /\ b \notin DOMAIN ApprovedOn(approvals_by_id, t)
        /\ IssuedOn(t) = <<1, 2>>
        /\ approve(owner_by_id[t], 5000, 30, t, a, None).result = "ok"
        /\ approve(owner_by_id[t], 5000, 30, t, a, None).refund = 5000
        /\ approve(owner_by_id[t], 5000, 30, t, b, None).result = "ok"
        /\ approve(owner_by_id[t], 5000, 30, t, b, None).refund = 5000 - PairCost(b)

\* C14: a revoke(T, A) that removes an approved account refunds the cost of
\* that one pair, whether or not the entry of the token collapses; a
\* revoke_all(T) on a token with approvals refunds the sum of the costs of
\* every pair of the token.
C14_RevokeRefunds ==
    \A c \in Accounts, d \in AnyDeposits, t \in TokenIdInputs :
        LET held == DOMAIN ApprovedOn(approvals_by_id, t)
        IN  /\ \A a \in Accounts :
                  LET o == revoke(c, d, t, a)
                  IN  o.result = "ok" /\ a \in held => o.refund = PairCost(a)
            /\ LET o == revoke_all(c, d, t)
               IN  o.result = "ok" /\ held # {} => o.refund = PairsCost(held)

\* two accounts are approved on T and one on U: revoking the one of U
\* collapses the entry and refunds one pair, revoke_all on T refunds two
C14_Witness ==
    \E t, u \in DOMAIN owner_by_id, a, b, x \in Accounts :
        /\ a # b
        /\ DOMAIN ApprovedOn(approvals_by_id, t) = {a, b}
        /\ DOMAIN ApprovedOn(approvals_by_id, u) = {x}
        /\ revoke(owner_by_id[u], 1, u, x).refund = PairCost(x)
        /\ u \notin DOMAIN revoke(owner_by_id[u], 1, u, x).approvals_by_id[1]
        /\ revoke(owner_by_id[t], 1, t, a).refund = PairCost(a)
        /\ revoke_all(owner_by_id[t], 1, t).refund = PairCost(a) + PairCost(b)

\* a step that schedules a notification is an approve: an id was assigned on
\* a token in this step, and the one call added to the queue carries that
\* token and that id to the account that holds it
QueuedOnlyByApprove ==
    Len(promises') > Len(promises) =>
        \E t \in DOMAIN owner_by_id :
            LET p == promises'[Len(promises')]
            IN  /\ promises' = Append(promises, p)
                /\ Len(IssuedOn(t)') = Len(IssuedOn(t)) + 1
                /\ p.token_id = t
                /\ p.owner_id = owner_by_id[t]
                /\ is_approved_in(owner_by_id', approvals_by_id', t, p.receiver_id,
                                  Some(p.approval_id)) = Yes

\* C15: a successful approve(T, A, Some(msg)) adds exactly one call of
\* nft_on_approve to the queue, addressed to A and carrying T, T's owner, the
\* id just assigned to A and msg; a successful approve without a message and
\* an approve that aborts add none; the outcomes of revoke and revoke_all add
\* none, and no step other than an approve adds one.
C15_NotificationQueued ==
    /\ [](\A c \in Accounts, d \in AnyDeposits, g \in Gases, t \in TokenIdInputs,
             a \in Accounts :
            /\ \A m \in Msgs :
                  LET o == approve(c, d, g, t, a, m)
                      n == Len(o.promises)
                  IN  IF o.result = "ok" /\ m # None
                        THEN /\ n = Len(promises) + 1
                             /\ SubSeq(o.promises, 1, n - 1) = promises
                             /\ o.promises[n].method = "nft_on_approve"
                             /\ o.promises[n].receiver_id = a
                             /\ o.promises[n].token_id = t
                             /\ o.promises[n].owner_id = owner_by_id[t]
                             /\ o.promises[n].approval_id = o.approval_id[1]
                             /\ o.promises[n].approval_id
                                   = ApprovedOn(o.approvals_by_id, t)[a]
                             /\ o.promises[n].msg = m[1]
                        ELSE o.promises = promises
            /\ revoke(c, d, t, a).promises = promises
            /\ revoke_all(c, d, t).promises = promises)
    /\ [][QueuedOnlyByApprove]_vars

\* the second approve on T carried a message: its notification is queued for
\* the account that holds id 2, and the owner can revoke that account
C15_Witness ==
    \E t \in DOMAIN owner_by_id :
        /\ IssuedOn(t) = <<1, 2>>
        /\ Len(promises) = 1
        /\ promises[1].token_id = t
        /\ promises[1].approval_id = 2
        /\ promises[1].msg = "msg"
        /\ is_approved(t, promises[1].receiver_id, Some(2)) = Yes
        /\ revoke(owner_by_id[t], 1, t, promises[1].receiver_id).result = "ok"

(***************************************************************************)
(* Properties of minting and transfer.                                     *)
(***************************************************************************)
\* the number of tokens minted from a series among the first n mints
MintedFrom(token_series_id, n) ==
    Cardinality({i \in 1..n : minted[i].token_series_id = token_series_id})

\* the approved accounts of a token as a view returns them
ApprovedAccountsOf(token_view) ==
    IF token_view.approved_account_ids = None THEN {}
    ELSE DOMAIN token_view.approved_account_ids[1]

OwnerChangeClearsApprovals ==
    \A t \in DOMAIN owner_by_id :
        (t \in DOMAIN owner_by_id' /\ owner_by_id'[t] # owner_by_id[t]) =>
            /\ DOMAIN owner_by_id' = DOMAIN owner_by_id
            /\ ApprovedOn(approvals_by_id', t) = EmptyMap
            /\ \A x \in Accounts :
                  is_approved_in(owner_by_id', approvals_by_id', t, x, None) = No

EntriesOf(abi) == IF abi = None THEN {} ELSE DOMAIN abi[1]

\* C18: the approval ledger never holds an entry with an empty mapping: a
\* revoke of the last approved account and a revoke_all delete the entry of
\* the token, and an approve on a token without an entry creates one that
\* holds exactly the approved account.
C18_NoEmptyLedgerEntry ==
    /\ \A t \in EntriesOf(approvals_by_id) : DOMAIN approvals_by_id[1][t] # {}
    /\ \A c \in Accounts, d \in AnyDeposits, t \in TokenIdInputs, a \in Accounts :
          /\ LET o == revoke(c, d, t, a)
             IN  o.result = "ok" /\ DOMAIN ApprovedOn(approvals_by_id, t) = {a} =>
                    t \notin EntriesOf(o.approvals_by_id)
          /\ LET o == revoke_all(c, d, t)
             IN  o.result = "ok" => t \notin EntriesOf(o.approvals_by_id)
          /\ \A g \in Gases, m \in Msgs :
                LET o == approve(c, d, g, t, a, m)
                IN  o.result = "ok" /\ t \notin EntriesOf(approvals_by_id) =>
                      /\ t \in EntriesOf(o.approvals_by_id)
                      /\ o.approvals_by_id[1][t] = [x \in {a} |-> o.approval_id[1]]

\* an id was assigned on T and T has no entry now: the owner's approve
\* re-creates it with one account and id 2; U holds one account of two
\* approved, and revoking it deletes U's entry
C18_Witness ==
    \E t, u \in DOMAIN owner_by_id, a, b \in Accounts :
        /\ IssuedOn(t) = <<1>>
        /\ t \notin EntriesOf(approvals_by_id)
        /\ approve(owner_by_id[t], 5000, 30, t, a, None).approvals_by_id[1][t]
              = [x \in {a} |-> 2]
        /\ IssuedOn(u) = <<1, 2>>
        /\ ApprovedOn(approvals_by_id, u) = [x \in {b} |-> 1]
        /\ u \notin EntriesOf(revoke(owner_by_id[u], 1, u, b).approvals_by_id)

\* the next approval id of a token in the counters nbi, 1 when it is absent
CounterOf(nbi, token_id) ==
    IF nbi # None /\ token_id \in DOMAIN nbi[1] THEN nbi[1][token_id] ELSE 1

\* the tokens that have a next approval id in the counters nbi
CountersOf(nbi) == IF nbi = None THEN {} ELSE DOMAIN nbi[1]

\* no step removes or decreases the next approval id of a token
CounterNeverDecreases ==
    \A t \in CountersOf(next_approval_id_by_id) :
        /\ t \in CountersOf(next_approval_id_by_id')
        /\ next_approval_id_by_id'[1][t] >= next_approval_id_by_id[1][t]

\* C19: a token has a next approval id exactly when an approve has succeeded
\* on it, and the id is then the number of those approves plus one; each
\* successful approve, of a new account or of an approved one, stores the id
\* it read (1 when absent) plus one and leaves the other tokens' ids alone;
\* the outcomes of revoke and revoke_all leave every id as it is, and no step
\* removes or decreases one.
C19_CounterOnlyGrows ==
    /\ [](/\ CountersOf(next_approval_id_by_id) = DOMAIN issued
          /\ \A t \in DOMAIN issued :
                next_approval_id_by_id[1][t] = Len(issued[t]) + 1
          /\ \A c \in Accounts, d \in AnyDeposits, t \in TokenIdInputs, a \in Accounts :
                /\ revoke(c, d, t, a).next_approval_id_by_id = next_approval_id_by_id
                /\ revoke_all(c, d, t).next_approval_id_by_id = next_approval_id_by_id
                /\ \A g \in Gases, m \in Msgs :
                      LET o == approve(c, d, g, t, a, m)
                      IN  IF o.result = "ok"
                            THEN /\ CounterOf(o.next_approval_id_by_id, t)
                                       = CounterOf(next_approval_id_by_id, t) + 1
                                 /\ CountersOf(o.next_approval_id_by_id)
                                       = CountersOf(next_approval_id_by_id) \cup {t}
                                 /\ \A u \in CountersOf(next_approval_id_by_id) \ {t} :
                                       o.next_approval_id_by_id[1][u]
                                          = next_approval_id_by_id[1][u]
                            ELSE o.next_approval_id_by_id = next_approval_id_by_id)
    /\ [][CounterNeverDecreases]_vars

\* two ids were assigned on T and every approval on T is gone: its next id is
\* 3; nothing was approved on U, which has no next id
C19_Witness ==
    \E t, u \in DOMAIN owner_by_id :
        /\ IssuedOn(t) = <<1, 2>>
        /\ t \notin EntriesOf(approvals_by_id)
        /\ next_approval_id_by_id[1][t] = 3
        /\ u \notin CountersOf(next_approval_id_by_id)
        /\ revoke_all(owner_by_id[t], 1, t).next_approval_id_by_id[1][t] = 3

\* the maps of the contract, without the queue of notifications
Maps == <<token_series_by_id, owner_by_id, approvals_by_id, next_approval_id_by_id>>
MapsOf(o) ==
    <<o.token_series_by_id, o.owner_by_id, o.approvals_by_id, o.next_approval_id_by_id>>

\* a step that takes a notification off the queue changes no map and assigns
\* no id
DeliveryChangesNothing ==
    Len(promises') < Len(promises) => UNCHANGED <<Maps, issued, created, minted, paid>>

\* a step that changes a map is a call of an entry point, and it leaves the
\* maps as that call leaves them when no message is given and no
\* notification is queued
MapsChangeAsWithoutMessage ==
    Maps' # Maps =>
        \/ \E c \in Accounts, d \in AnyDeposits, t \in TokenIdInputs, a \in Accounts :
              \/ Maps' = MapsOf(approve(c, d, GAS_FOR_NFT_APPROVE, t, a, None))
              \/ Maps' = MapsOf(revoke(c, d, t, a))
              \/ Maps' = MapsOf(revoke_all(c, d, t))
              \/ Maps' = MapsOf(transfer(c, d, a, t, None))
        \/ \E c \in Accounts, d \in AnyDeposits, s \in SeriesIdInputs, r \in Accounts :
              Maps' = MapsOf(mint(c, d, s, r))
        \/ \E c \in Accounts, d \in AnyDeposits :
              Maps' = MapsOf(create_series(c, d, sample_token_metadata, None))

\* C20: a notification in the queue carries an id that its approve has
\* assigned and committed: the id is among those assigned on the token and
\* below the token's next id; an approve with a message leaves the maps as
\* the same approve without one; taking a notification off the queue,
\* delivered or failed, changes no map and no counter, and every change of
\* the maps, with notifications waiting or not, is the change the call makes
\* when nothing is queued for it.
C20_NotificationNeverTouchesLedger ==
    /\ [](/\ \A i \in 1..Len(promises) :
                LET p == promises[i]
                IN  /\ \E k \in 1..Len(IssuedOn(p.token_id)) :
                          IssuedOn(p.token_id)[k] = p.approval_id
                    /\ p.approval_id < CounterOf(next_approval_id_by_id, p.token_id)
          /\ \A c \in Accounts, d \in AnyDeposits, g \in Gases, t \in TokenIdInputs,
                a \in Accounts :
                LET o == approve(c, d, g, t, a, Some("msg"))
                IN  o.result = "ok" =>
                      MapsOf(o) = MapsOf(approve(c, d, g, t, a, None)))
    /\ [][DeliveryChangesNothing /\ MapsChangeAsWithoutMessage]_vars

\* the notification of the first approve on T is still in the queue, a second
\* id was assigned on T since and the account notified does not hold id 1
\* any more
C20_Witness ==
    \E t \in DOMAIN owner_by_id :
        /\ Len(promises) = 1
        /\ promises[1].token_id = t
        /\ promises[1].approval_id = 1
        /\ IssuedOn(t) = <<1, 2>>
        /\ is_approved(t, promises[1].receiver_id, Some(1)) = No

(***************************************************************************)
(* Properties of underpaid calls, of the series records and of the frame   *)
(* of the approval calls.                                                  *)
(***************************************************************************)
\* C21: a call whose deposit is below the cost of the storage it takes aborts
\* and leaves the state as it was: create_series with less than the cost of
\* the record leaves the registry and the number of series unchanged, and
\* approve of an account that is not approved on the token with less than
\* the cost of one pair leaves the approvals and the next approval ids
\* unchanged; nothing is refunded, logged or scheduled.
C21_UnderpaidCallAborts ==
    /\ \A c \in Accounts, d \in AnyDeposits, m \in Metadatas, p \in Prices :
          d < series_storage_bytes * storage_byte_cost =>
            LET o == create_series(c, d, m, p)
            IN  /\ o.result # "ok"
                /\ o.token_series_by_id = token_series_by_id
                /\ Cardinality(DOMAIN o.token_series_by_id)
                      = Cardinality(DOMAIN token_series_by_id)
                /\ o = Panic(o.result)
    /\ \A c \in Accounts, d \in AnyDeposits, g \in Gases, t \in DOMAIN owner_by_id,
          a \in Accounts, m \in Msgs :
          a \notin DOMAIN ApprovedOn(approvals_by_id, t) /\ d < PairCost(a) =>
            LET o == approve(c, d, g, t, a, m)
            IN  /\ o.result # "ok"
                /\ o.approvals_by_id = approvals_by_id
                /\ o.next_approval_id_by_id = next_approval_id_by_id
                /\ o = Panic(o.result)

\* B is approved on T and A is not: the owner's approve of A with 160
\* yoctoNEAR, less than the cost of A's pair, and a create_series with 160
\* abort for the storage; with 5000 both pass
C21_Witness ==
    \E t \in DOMAIN owner_by_id, a, b \in Accounts :
        /\ b \in DOMAIN ApprovedOn(approvals_by_id, t)
        /\ a \notin DOMAIN ApprovedOn(approvals_by_id, t)
        /\ 160 < PairCost(a)
        /\ approve(owner_by_id[t], 160, 30, t, a, None).result
              = "Must attach yoctoNEAR to cover storage"
        /\ approve(owner_by_id[t], 5000, 30, t, a, None).result = "ok"
        /\ create_series("bob", 160, sample_token_metadata, None).result
              = "Must attach yoctoNEAR to cover storage"
        /\ create_series("bob", 5000, sample_token_metadata, None).result = "ok"

\* C22: a create_series with a title, a price below MAX_PRICE or none and the
\* storage paid succeeds for every caller; a successful create_series stores
\* under the id it returns a record with the caller as creator, no tokens,
\* is_mintable true, the metadata and the price given (none when none was
\* given), returns the id, the metadata and the caller, and leaves every
\* record stored before as it was.
C22_SeriesRecord ==
    \A c \in Accounts, d \in StorageDeposits, m \in Metadatas, p \in Prices :
        LET o == create_series(c, d, m, p)
        IN  /\ ( /\ m.title # None
                 /\ p # Some(MAX_PRICE)
                 /\ d >= series_storage_bytes * storage_byte_cost ) => o.result = "ok"
            /\ o.result = "ok" =>
                 LET id == o.ret[1].token_series_id
                 IN  /\ id \notin DOMAIN token_series_by_id
                     /\ DOMAIN o.token_series_by_id = DOMAIN token_series_by_id \cup {id}
                     /\ o.token_series_by_id[id].creator_id = c
                     /\ o.token_series_by_id[id].tokens = {}
                     /\ o.token_series_by_id[id].is_mintable = TRUE
                     /\ o.token_series_by_id[id].price = p
                     /\ o.token_series_by_id[id].metadata = m
                     /\ o.ret[1] = [token_series_id |-> id, metadata |-> m,
                                    creator_id |-> c]
                     /\ \A old \in DOMAIN token_series_by_id :
                           o.token_series_by_id[old] = token_series_by_id[old]

\* series "1" was created by an account that is not the minting authority
\* and holds a token; series "2" has a price and no token; charlie can create
\* a third one, which leaves both as they are
C22_Witness ==
    /\ created = <<"1", "2">>
    /\ token_series_by_id["1"].creator_id # owner_id
    /\ token_series_by_id["1"].tokens # {}
    /\ token_series_by_id["1"].price = None
    /\ token_series_by_id["2"] =
          new_token_series(sample_token_metadata, "bob", Some(MAX_PRICE_MINUS_1))
    /\ LET o == create_series("charlie", 5000, sample_token_metadata, Some(U128(0)))
       IN  /\ o.result = "ok"
           /\ o.token_series_by_id["3"].creator_id = "charlie"
           /\ o.token_series_by_id["1"] = token_series_by_id["1"]

\* C23: in whatever order the registry is iterated, list_series returns as
\* many descriptors as create_series calls have succeeded, their ids are
\* exactly "1" .. "n" with no id twice, and each carries the id, the metadata
\* and the creator of the record stored under its id; the call is a view
\* and leaves the state as it is.
C23_ListSeries ==
    \A keys \in KeyOrders(DOMAIN token_series_by_id) :
        LET v == series_for_all_iter(keys)
        IN  /\ Len(v) = Len(created)
            /\ {v[i].token_series_id : i \in 1..Len(v)} = SeriesIds(Len(created))
            /\ {v[i].token_series_id : i \in 1..Len(v)} = DOMAIN token_series_by_id
            /\ \A i, j \in 1..Len(v) :
                  i # j => v[i].token_series_id # v[j].token_series_id
            /\ \A i \in 1..Len(v) :
                  /\ v[i].metadata = token_series_by_id[v[i].token_series_id].metadata
                  /\ v[i].creator_id = token_series_by_id[v[i].token_series_id].creator_id
            /\ {v[i] : i \in 1..Len(v)} = series_for_all

\* three series were created: list_series returns three descriptors, "3"
\* first in one of the orders
C23_Witness ==
    /\ created = <<"1", "2", "3">>
    /\ Cardinality(series_for_all) = 3
    /\ Len(series_for_all_iter(<<"3", "1", "2">>)) = 3
    /\ series_for_all_iter(<<"3", "1", "2">>)[1] =
          [token_series_id |-> "3", metadata |-> sample_token_metadata,
           creator_id |-> "bob"]

\* C24: on every token, every approval id held is at least 1 and below the
\* token's next approval id, and two accounts approved on the token hold
\* different ids.
C24_HeldIdsInRange ==
    \A t \in EntriesOf(approvals_by_id) :
        LET held == approvals_by_id[1][t]
        IN  /\ t \in CountersOf(next_approval_id_by_id)
            /\ \A a \in DOMAIN held :
                  /\ held[a] >= 1
                  /\ held[a] < next_approval_id_by_id[1][t]
            /\ \A a, b \in DOMAIN held : a # b => held[a] # held[b]

\* two accounts hold ids 1 and 2 on T, whose next id is 3; on U two ids were
\* assigned and the one account left holds id 2
C24_Witness ==
    \E t, u \in DOMAIN owner_by_id, a, b, x \in Accounts :
        /\ ApprovedOn(approvals_by_id, t) = [y \in {a, b} |-> IF y = a THEN 1 ELSE 2]
        /\ a # b
        /\ next_approval_id_by_id[1][t] = 3
        /\ ApprovedOn(approvals_by_id, u) = [y \in {x} |-> 2]
        /\ next_approval_id_by_id[1][u] = 3

\* the id an account holds on a token in the ledger abi, if any
HeldBy(abi, token_id, account_id) == MapGet(ApprovedOn(abi, token_id), account_id)

\* an outcome leaves the owners, the series and, for every token but
\* token_id, the approvals and the next approval id as they are
OnlyTouches(o, token_id) ==
    /\ o.owner_by_id = owner_by_id
    /\ o.token_series_by_id = token_series_by_id
    /\ EntriesOf(o.approvals_by_id) \ {token_id} = EntriesOf(approvals_by_id) \ {token_id}
    /\ CountersOf(o.next_approval_id_by_id) \ {token_id}
          = CountersOf(next_approval_id_by_id) \ {token_id}
    /\ \A u \in (DOMAIN owner_by_id \cup EntriesOf(approvals_by_id)
                    \cup CountersOf(next_approval_id_by_id)) \ {token_id} :
          /\ ApprovedOn(o.approvals_by_id, u) = ApprovedOn(approvals_by_id, u)
          /\ CounterOf(o.next_approval_id_by_id, u) = CounterOf(next_approval_id_by_id, u)

\* C25: approve(T, A, _), revoke(T, A) and revoke_all(T) leave the approvals
\* and the next approval id of every other token and the owner of every
\* token as they are, and approve(T, A, _) and revoke(T, A) leave the id that
\* every other account holds on T as it is.
C25_OnlyTargetChanges ==
    \A c \in Accounts, d \in AnyDeposits, t \in TokenIdInputs, a \in Accounts :
        /\ \A g \in Gases, m \in Msgs :
              LET o == approve(c, d, g, t, a, m)
              IN  /\ OnlyTouches(o, t)
                  /\ \A b \in Accounts \ {a} :
                        HeldBy(o.approvals_by_id, t, b) = HeldBy(approvals_by_id, t, b)
        /\ LET o == revoke(c, d, t, a)
           IN  /\ OnlyTouches(o, t)
               /\ \A b \in Accounts \ {a} :
                     HeldBy(o.approvals_by_id, t, b) = HeldBy(approvals_by_id, t, b)
        /\ OnlyTouches(revoke_all(c, d, t), t)

\* A and B are approved on T and X on U: the owner's approve and revoke of A
\* on T and revoke_all on T succeed, B keeps its id through the first two
\* and U keeps X
C25_Witness ==
    \E t, u \in DOMAIN owner_by_id, a, b, x \in Accounts :
        /\ t # u
        /\ a # b
        /\ DOMAIN ApprovedOn(approvals_by_id, t) = {a, b}
        /\ DOMAIN ApprovedOn(approvals_by_id, u) = {x}
        /\ approve(owner_by_id[t], 5000, 30, t, a, None).result = "ok"
        /\ HeldBy(approve(owner_by_id[t], 5000, 30, t, a, None).approvals_by_id, t, b)
              = HeldBy(approvals_by_id, t, b)
        /\ HeldBy(revoke(owner_by_id[t], 1, t, a).approvals_by_id, t, b)
              = HeldBy(approvals_by_id, t, b)
        /\ HeldBy(revoke(owner_by_id[t], 1, t, a).approvals_by_id, t, a) = None
        /\ ApprovedOn(revoke_all(owner_by_id[t], 1, t).approvals_by_id, t) = EmptyMap
        /\ ApprovedOn(revoke_all(owner_by_id[t], 1, t).approvals_by_id, u)
              = ApprovedOn(approvals_by_id, u)

\* C26: over the approve, revoke and revoke_all calls on a token, the storage
\* charged by the approves less the refunds of the revokes and revoke_alls is
\* the sum of the costs of the pairs of the accounts approved on the token
\* now: it is never negative and is zero when no account is approved; a
\* re-approval charges nothing, and a revoke of an account that is not
\* approved and a revoke_all on a token without approvals refund nothing.
C26_StoragePaymentsConserved ==
    /\ \A t \in DOMAIN owner_by_id \cup DOMAIN paid :
          /\ PaidOn(t) = PairsCost(DOMAIN ApprovedOn(approvals_by_id, t))
          /\ PaidOn(t) >= 0
          /\ DOMAIN ApprovedOn(approvals_by_id, t) = {} => PaidOn(t) = 0
    /\ \A c \in Accounts, d \in AnyDeposits, t \in TokenIdInputs, a \in Accounts :
          LET held == DOMAIN ApprovedOn(approvals_by_id, t)
          IN  /\ \A g \in Gases, m \in Msgs :
                    LET o == approve(c, d, g, t, a, m)
                    IN  o.result = "ok" /\ a \in held => d - o.refund = 0
              /\ a \notin held => revoke(c, d, t, a).refund = 0
              /\ held = {} => revoke_all(c, d, t).refund = 0

\* two accounts are approved on T, which has been charged for both pairs; an
\* id was assigned on U and no account is approved on it, all it was charged
\* is refunded
C26_Witness ==
    \E t, u \in DOMAIN owner_by_id, a, b \in Accounts :
        /\ a # b
        /\ DOMAIN ApprovedOn(approvals_by_id, t) = {a, b}
        /\ PaidOn(t) = PairCost(a) + PairCost(b)
        /\ IssuedOn(u) # <<>>
        /\ DOMAIN ApprovedOn(approvals_by_id, u) = {}
        /\ PaidOn(u) = 0
        /\ owner_by_id[u] = "alice"
        /\ "1:2" \in DOMAIN owner_by_id

====
